---------------------------- MODULE Spec2Model ----------------------------
(***************************************************************************)
(* Model of the quiz bot of PNG_Test_Sv: the question-bank loader          *)
(* (QuizBot.parse_excel), the SQLite session store (get_user_data,         *)
(* save_user_data, delete_user_data) and the handlers start,               *)
(* handle_answer, send_question and finish_quiz of src/Test.py, together   *)
(* with the toggle and grading code of src/Teletest_Sv.py.                 *)
(*                                                                         *)
(* Text is a sequence of one-character strings.  The module is ASCII, so   *)
(* the Cyrillic letter of the separator " и " is written "i" and the       *)
(* placeholder "Нет ответа" is written "Net otveta".                       *)
(***************************************************************************)
EXTENDS Integers, Sequences, FiniteSets, TLC

VARIABLES
    store,      \* table user_data as self.conn shows it: user_id -> row, or None
    db,         \* table user_data as committed to the file quiz.db
    pc,         \* per handler slot: the await the coroutine is suspended at
    upd,        \* per handler slot: the update being handled (user, data)
    local,      \* per handler slot: user_state of handle_answer, or None
    out,        \* per user: the last message the bot sent to that user
    submits,    \* history: submits committed for the user since the last start
    last_save,  \* history: per user, the user_data of the last save_user_data
                \* that returned, None after a delete_user_data that returned
    delivered,  \* history: updates dispatched so far (counted in SpecConc)
    faults,     \* failures of the store, the network or the process still to come
    concurrent_updates, \* Application setting: handle updates concurrently
    sheet,      \* loader: the rows of the active worksheet
    row_num,    \* loader: rows the for loop of parse_excel has consumed
    questions,  \* loader: local list questions of parse_excel
    skipped_rows, \* loader: local list skipped_rows of parse_excel
    loaded      \* loader: "parsing", "ok" (bank returned) or "error" (raised)

vars == <<store, db, pc, upd, local, out, submits, last_save, delivered, faults,
          concurrent_updates, sheet, row_num, questions, skipped_rows, loaded>>

\* what no handler changes: the settings and the bank of the running bot
bot == <<concurrent_updates, sheet, row_num, questions, skipped_rows, loaded>>

None == [k |-> "none", s |-> <<>>, n |-> 0]

(***************************************************************************)
(* Text helpers: str.strip, str.replace, the in operator, str.split.       *)
(***************************************************************************)
RECURSIVE lstrip(_)
lstrip(s) == IF s # <<>> /\ Head(s) = " " THEN lstrip(Tail(s)) ELSE s

RECURSIVE rstrip(_)
rstrip(s) ==
    IF s # <<>> /\ s[Len(s)] = " " THEN rstrip(SubSeq(s, 1, Len(s) - 1)) ELSE s

strip(s) == rstrip(lstrip(s))

startswith(s, p) == Len(p) <= Len(s) /\ SubSeq(s, 1, Len(p)) = p

\* s.replace(old, new): leftmost non-overlapping occurrences, one pass
RECURSIVE replace(_, _, _)
replace(s, old, new) ==
    IF s = <<>> THEN <<>>
    ELSE IF startswith(s, old)
         THEN new \o replace(SubSeq(s, Len(old) + 1, Len(s)), old, new)
         ELSE <<Head(s)>> \o replace(Tail(s), old, new)

\* sub in s
contains(s, sub) ==
    \E i \in 1..(Len(s) + 1) : startswith(SubSeq(s, i, Len(s)), sub)

\* s.split(c) for a one-character separator: always at least one part
RECURSIVE split(_, _)
split(s, c) ==
    IF ~(\E i \in 1..Len(s) : s[i] = c) THEN <<s>>
    ELSE LET i == CHOOSE j \in 1..Len(s) :
                     s[j] = c /\ \A m \in 1..(j - 1) : s[m] # c
         IN  <<SubSeq(s, 1, i - 1)>> \o split(SubSeq(s, i + 1, Len(s)), c)

(***************************************************************************)
(* Cells of a worksheet row: None, a string, or a number (a numeric cell). *)
(***************************************************************************)
Str(s) == [k |-> "str", s |-> s, n |-> 0]
Num(n) == [k |-> "int", s |-> <<>>, n |-> n]

DigitChar == <<"1", "2", "3", "4", "5", "6", "7", "8", "9">>

\* not cell: None, "" and 0 are falsy
falsy(c) ==
    \/ c.k = "none"
    \/ c.k = "str" /\ c.s = <<>>
    \/ c.k = "int" /\ c.n = 0

\* str(cell), for the cells of the model: text, None, one-digit numbers
str(c) ==
    IF c.k = "str" THEN c.s
    ELSE IF c.k = "none" THEN <<"N", "o", "n", "e">>
    ELSE IF c.n = 0 THEN <<"0">> ELSE <<DigitChar[c.n]>>

\* int(s) for s in ["1", "2", "3", "4"]
int(s) == CHOOSE n \in 1..4 : <<DigitChar[n]>> = s

ValidDigits == {<<"1">>, <<"2">>, <<"3">>, <<"4">>}

Sep == <<" ", "i", " ">>

NoAnswer == <<"N", "e", "t", " ", "o", "t", "v", "e", "t", "a">>

(***************************************************************************)
(* QuizBot.parse_excel of Test.py.  A row is a tuple of 6 cells: answer    *)
(* spec, question text, four options.  A question is the dict built at     *)
(* lines 104-108; skipped_rows holds pairs <<row_num, reason>>.            *)
(***************************************************************************)
MinQuestions == 10
MaxQuestions == 500

\* line 74: options = [str(opt) if opt is not None else "Нет ответа" ...]
normalize_options(row) ==
    [i \in 1..4 |-> IF row[i + 2].k = "none" THEN NoAnswer ELSE str(row[i + 2])]

\* line 75: all(opt.strip() for opt in options)
all_options_filled(options) ==
    \A i \in 1..Len(options) : strip(options[i]) # <<>>

\* line 80: str(row[0]).strip().replace("  ", " ")
normalize_answer(cell) == replace(strip(str(cell)), <<" ", " ">>, <<" ">>)

\* lines 88-94: the for loop over nums, left by break at the first bad number
RECURSIVE parse_nums(_, _, _)
parse_nums(nums, rn, acc) ==
    IF nums = <<>> THEN [correct_answers |-> acc, skipped |-> <<>>]
    ELSE LET num == strip(Head(nums))
         IN  IF num \in ValidDigits
             THEN parse_nums(Tail(nums), rn, Append(acc, int(num)))
             ELSE [correct_answers |-> acc,
                   skipped |-> << <<rn, "Invalid number in answers">> >>]

\* lines 79-97: correct_answers of a row, what is appended to skipped_rows, and
\* whether the loop body went on past the if/elif/else (no continue)
parse_answer(cell, rn) ==
    LET raw_answer == normalize_answer(cell)
    IN  IF raw_answer \in ValidDigits
        THEN [correct_answers |-> <<int(raw_answer)>>, skipped |-> <<>>,
              goes_on |-> TRUE]
        ELSE IF contains(raw_answer, Sep)
        THEN LET nums == split(replace(raw_answer, Sep, <<",">>), ",")
                 r == parse_nums(nums, rn, <<>>)
             IN  [correct_answers |-> r.correct_answers, skipped |-> r.skipped,
                  goes_on |-> TRUE]
        ELSE [correct_answers |-> <<>>,
              skipped |-> << <<rn, "Invalid answer format">> >>,
              goes_on |-> FALSE]

\* lines 67-110: one iteration of the loop over the rows; qs and sk are the
\* lists questions and skipped_rows before it, the result the lists after it
parse_row(rn, row, qs, sk) ==
    IF falsy(row[1]) \/ falsy(row[2])
    THEN [questions |-> qs,
          skipped_rows |-> Append(sk, <<rn, "Empty answer or question">>)]
    ELSE LET options == normalize_options(row)
         IN  IF ~all_options_filled(options)
             THEN [questions |-> qs,
                   skipped_rows |-> Append(sk, <<rn, "One or more answer options empty after normalization">>)]
             ELSE LET a == parse_answer(row[1], rn)
                      sk2 == sk \o a.skipped
                  IN  IF ~a.goes_on
                      THEN [questions |-> qs, skipped_rows |-> sk2]
                      ELSE IF a.correct_answers = <<>>
                      THEN [questions |-> qs,
                            skipped_rows |-> Append(sk2, <<rn, "No valid correct answers parsed">>)]
                      ELSE [questions |->
                                Append(qs, [correct_answers |-> a.correct_answers,
                                            question |-> strip(str(row[2])),
                                            options |-> options]),
                            skipped_rows |-> sk2]

\* lines 64-110: the whole loop, rows rn..len(rows) still to do
RECURSIVE parse_rows(_, _, _, _)
parse_rows(rows, rn, qs, sk) ==
    IF rn > Len(rows) THEN [questions |-> qs, skipped_rows |-> sk]
    ELSE LET r == parse_row(rn, rows[rn], qs, sk)
         IN  parse_rows(rows, rn + 1, r.questions, r.skipped_rows)

\* the lower size check off by one
too_few_strict(qs) == Len(qs) < MinQuestions

\* lines 114-121: the two size checks that raise ValueError
too_few(qs) == Len(qs) <= MinQuestions
too_many(qs) == Len(qs) > MaxQuestions

\* lines 59-129: parse_excel; any exception is re-raised (lines 127-129)
parse_excel(rows) ==
    LET r == parse_rows(rows, 1, <<>>, <<>>)
    IN  [questions |-> r.questions, skipped_rows |-> r.skipped_rows,
         loaded |-> IF too_few(r.questions) \/ too_many(r.questions)
                    THEN "error" ELSE "ok"]

(***************************************************************************)
(* The worksheet the bot of the session engine was started with: 11 rows   *)
(* that parse_excel accepts, so that the bank holds more than 10           *)
(* questions.                                                              *)
(***************************************************************************)
Q(a, t) == <<Str(a), Str(<<"q", t>>),
             Str(<<"a">>), Str(<<"b">>), Str(<<"c">>), Str(<<"d">>)>>

TestSheet ==
    << Q(<<"1">>, "1"), Q(<<"2">>, "2"), Q(<<"1", " ", "i", " ", "2">>, "3"),
       Q(<<"3">>, "4"), Q(<<"1">>, "5"), Q(<<"2", " ", "i", " ", "1">>, "6"),
       Q(<<"4">>, "7"), Q(<<"1">>, "8"), Q(<<"3", " ", "i", " ", "4">>, "9"),
       Q(<<"2">>, "a"), Q(<<"1">>, "b") >>

(***************************************************************************)
(* Python list and set operations used by the handlers.                    *)
(***************************************************************************)
\* set(xs)
set(xs) == {xs[i] : i \in 1..Len(xs)}

\* x in xs
member(x, xs) == \E i \in 1..Len(xs) : xs[i] = x

\* xs.remove(x): drops the first occurrence
remove(xs, x) ==
    LET i == CHOOSE j \in 1..Len(xs) : xs[j] = x /\ \A m \in 1..(j - 1) : xs[m] # x
    IN  SubSeq(xs, 1, i - 1) \o SubSeq(xs, i + 1, Len(xs))

\* list(S) for a set of small non-negative integers: CPython iterates them in
\* increasing order
RECURSIVE list(_)
list(S) ==
    IF S = {} THEN <<>>
    ELSE LET m == CHOOSE x \in S : \A y \in S : x <= y
         IN  <<m>> \o list(S \ {m})

\* json.dumps / json.loads of lists of dicts, lists of ints and lists of lists:
\* the text of a value, and the value of a text
json_dumps(v) == [json |-> v]
json_loads(t) == t.json

(***************************************************************************)
(* The session store of Test.py: table user_data keyed by user_id.         *)
(***************************************************************************)
\* lines 131-148: fetchone() is None for a missing row
get_user_data(st, user_id) ==
    LET data == st[user_id]
    IN  IF data # None
        THEN [questions |-> json_loads(data.questions),
              current_question |-> data.current_question,
              score |-> data.score,
              selected_answers |-> json_loads(data.selected_answers),
              user_answers |-> json_loads(data.user_answers)]
        ELSE None

\* lines 150-168: INSERT OR REPLACE of the whole row.  The connection shows
\* the new row at once; conn.commit() (line 165) writes what the connection
\* shows to the file, which the handlers model as db' = store'.
save_user_data(st, user_id, user_data) ==
    [st EXCEPT ![user_id] =
        [questions |-> json_dumps(user_data.questions),
         current_question |-> user_data.current_question,
         score |-> user_data.score,
         selected_answers |-> json_dumps(user_data.selected_answers),
         user_answers |-> json_dumps(user_data.user_answers)]]

\* lines 170-178: DELETE of the row
delete_user_data(st, user_id) == [st EXCEPT ![user_id] = None]

(***************************************************************************)
(* The transitions of QuizBot in Test.py on a loaded user_state.           *)
(***************************************************************************)
QuizLen == 10

\* lines 185-191: the user_data dict of a new quiz
new_user_data(random_questions) ==
    [questions |-> random_questions,
     current_question |-> 0,
     score |-> 0,
     selected_answers |-> <<>>,
     user_answers |-> <<>>]

\* toggle that never removes
toggle_append(user_state, option_num) ==
    [user_state EXCEPT !.selected_answers = Append(@, option_num)]

\* lines 290-294: select_<n>
toggle(user_state, option_num) ==
    IF member(option_num, user_state.selected_answers)
    THEN [user_state EXCEPT !.selected_answers = remove(@, option_num)]
    ELSE [user_state EXCEPT !.selected_answers = Append(@, option_num)]

\* grading that accepts any part of the correct set
is_correct_subset(selected, correct_answers) ==
    set(selected) \subseteq set(correct_answers)

\* line 306: user_answers == correct_answers, both sets
is_correct(selected, correct_answers) == set(selected) = set(correct_answers)

\* submit that leaves the selection for the next question
submit_keeps_selection(user_state) ==
    LET question_data == user_state.questions[user_state.current_question + 1]
        user_answers == set(user_state.selected_answers)
    IN  [user_state EXCEPT
            !.user_answers = Append(@, list(user_answers)),
            !.score = IF set(user_state.selected_answers)
                           = set(question_data.correct_answers)
                      THEN @ + 1 ELSE @,
            !.current_question = @ + 1]

\* submit that counts every answer as correct, twice
submit_scores_twice(user_state) ==
    [user_state EXCEPT
        !.user_answers = Append(@, list(set(user_state.selected_answers))),
        !.score = @ + 2,
        !.current_question = @ + 1,
        !.selected_answers = <<>>]

\* submit that records no answer
submit_forgets_answer(user_state) ==
    LET question_data == user_state.questions[user_state.current_question + 1]
    IN  [user_state EXCEPT
            !.score = IF set(user_state.selected_answers)
                           = set(question_data.correct_answers)
                      THEN @ + 1 ELSE @,
            !.current_question = @ + 1,
            !.selected_answers = <<>>]

\* submit that counts every answer with an option marked as correct
submit_scores_marked(user_state) ==
    [user_state EXCEPT
        !.user_answers = Append(@, list(set(user_state.selected_answers))),
        !.score = IF user_state.selected_answers # <<>> THEN @ + 1 ELSE @,
        !.current_question = @ + 1,
        !.selected_answers = <<>>]

\* lines 298-310: submit, for current_question < len(questions)
submit(user_state) ==
    LET question_data == user_state.questions[user_state.current_question + 1]
        user_answers == set(user_state.selected_answers)
    IN  [user_state EXCEPT
            !.user_answers = Append(@, list(user_answers)),
            !.score = IF is_correct(user_state.selected_answers,
                                    question_data.correct_answers)
                      THEN @ + 1 ELSE @,
            !.current_question = @ + 1,
            !.selected_answers = <<>>]

\* line 298: questions[current_question] raises IndexError past the end
index_error(user_state) ==
    user_state.current_question >= Len(user_state.questions)

(***************************************************************************)
(* The same transitions in Teletest_Sv.py, on an entry of self.user_data   *)
(* (a dict without user_answers).                                          *)
(***************************************************************************)
\* Teletest_Sv.py lines 86-90: select_<n>
Sv_toggle(entry, option_num) ==
    IF member(option_num, entry.selected_answers)
    THEN [entry EXCEPT !.selected_answers = remove(@, option_num)]
    ELSE [entry EXCEPT !.selected_answers = Append(@, option_num)]

\* Teletest_Sv.py lines 95-103: submit
Sv_submit(entry) ==
    LET question_data == entry.questions[entry.current_question + 1]
        correct_answers == set(question_data.correct_answers)
        user_answers == set(entry.selected_answers)
    IN  [entry EXCEPT
            !.score = IF user_answers = correct_answers THEN @ + 1 ELSE @,
            !.current_question = @ + 1,
            !.selected_answers = <<>>]

(***************************************************************************)
(* Messages to the user.                                                   *)
(***************************************************************************)
NoMessage == [type |-> "none"]
Welcome == [type |-> "welcome"]
Expired == [type |-> "expired"]     \* "Сессия истекла. Нажмите /start."
Failed == [type |-> "error"]        \* "Произошла ошибка. Попробуйте снова."

\* lines 209-240: the question text and the keyboard with its checkboxes
format_question(user_state, question_data) ==
    [type |-> "question",
     number |-> user_state.current_question + 1,
     question |-> question_data.question,
     checked |-> {i \in 1..4 : member(i, user_state.selected_answers)}]

\* lines 222-272: send_question: what the user is sent
send_question(st, user_id) ==
    LET user_state == get_user_data(st, user_id)
    IN  IF user_state = None THEN Expired
        ELSE IF index_error(user_state) THEN Failed
        ELSE format_question(user_state,
                 user_state.questions[user_state.current_question + 1])

(***************************************************************************)
(* Python floats (IEEE 754 binary64) as far as line 332 needs them: a      *)
(* non-negative value is zero or 2^exp * 1.b2 b3 ... b53, its 53           *)
(* significant bits in bits, the first of them 1.                          *)
(***************************************************************************)
\* a + 1 on a big-endian bit string that holds a 0
increment(bits) ==
    LET last == CHOOSE i \in 1..Len(bits) :
                    bits[i] = 0 /\ \A j \in (i + 1)..Len(bits) : bits[j] = 1
    IN  [i \in 1..Len(bits) |->
            IF i < last THEN bits[i] ELSE IF i = last THEN 1 ELSE 0]

\* 2^n modulo b, for n <= 52, without leaving 32 bits
power_of_2_mod(n, b) == ((2 ^ (n \div 2) % b) * (2 ^ (n - n \div 2) % b)) % b

\* what is left of r / b after n bits of its binary expansion, 0 <= r < b
quotient_rest(r, b, n) == (r * power_of_2_mod(n, b)) % b

\* bit n of the binary expansion of r / b
quotient_bit(r, b, n) == IF 2 * quotient_rest(r, b, n - 1) >= b THEN 1 ELSE 0

\* a / b for b <= a < 2 * b, times 2^exp, rounded to nearest, ties to even
rounded(a, b, exp) ==
    LET bits == [i \in 1..53 |->
                    IF i = 1 THEN 1 ELSE quotient_bit(a - b, b, i - 1)]
        rest == quotient_rest(a - b, b, 52)
        up == 2 * rest > b \/ (2 * rest = b /\ bits[53] = 1)
    IN  IF ~up THEN [zero |-> FALSE, exp |-> exp, bits |-> bits]
        ELSE IF 0 \in set(bits)
             THEN [zero |-> FALSE, exp |-> exp, bits |-> increment(bits)]
             ELSE [zero |-> FALSE, exp |-> exp + 1,
                   bits |-> [i \in 1..53 |-> IF i = 1 THEN 1 ELSE 0]]

\* a / b of two ints, a >= 0 and b > 0: the nearest float
RECURSIVE truediv_scaled(_, _, _)
truediv_scaled(a, b, exp) ==
    IF a < b THEN truediv_scaled(2 * a, b, exp - 1)
    ELSE IF a >= 2 * b THEN truediv_scaled(a, 2 * b, exp + 1)
    ELSE rounded(a, b, exp)

truediv(a, b) ==
    IF a = 0 THEN [zero |-> TRUE, exp |-> 0, bits |-> <<>>]
    ELSE truediv_scaled(a, b, 0)

\* x > y on bit strings of one length
bits_gt(x, y) ==
    \E i \in 1..Len(x) : x[i] > y[i] /\ \A j \in 1..(i - 1) : x[j] = y[j]

\* x >= y of two non-negative floats
float_ge(x, y) ==
    IF y.zero THEN TRUE
    ELSE IF x.zero THEN FALSE
    ELSE \/ x.exp > y.exp
         \/ x.exp = y.exp /\ ~bits_gt(y.bits, x.bits)

\* the literal 0.8: the float nearest to 8/10
float_0_8 == truediv(8, 10)

\* the verdict with the threshold excluded
passed_above(score, total) == ~float_ge(float_0_8, truediv(score, total))

\* line 332: (score / total) >= 0.8
passed(score, total) == float_ge(truediv(score, total), float_0_8)

\* Teletest_Sv.py line 114: (score / total) >= 0.8
Sv_passed(score, total) == float_ge(truediv(score, total), float_0_8)

\* the missed list by comparing the recorded list with the stored one
RECURSIVE incorrect_by_list(_, _, _)
incorrect_by_list(qs, uas, i) ==
    IF i > Len(qs) \/ i > Len(uas) THEN <<>>
    ELSE LET correct_answers == set(qs[i].correct_answers)
             rest == incorrect_by_list(qs, uas, i + 1)
         IN  IF uas[i] # qs[i].correct_answers
             THEN << [number |-> i,
                      question |-> qs[i].question,
                      correct_texts |->
                          [k \in 1..Cardinality(correct_answers) |->
                              qs[i].options[list(correct_answers)[k]]]] >> \o rest
             ELSE rest

\* lines 336-347: the questions whose recorded answer differs from the correct
\* set; zip stops at the shorter of questions and user_answers
RECURSIVE incorrect_questions(_, _, _)
incorrect_questions(qs, uas, i) ==
    IF i > Len(qs) \/ i > Len(uas) THEN <<>>
    ELSE LET correct_answers == set(qs[i].correct_answers)
             rest == incorrect_questions(qs, uas, i + 1)
         IN  IF set(uas[i]) # correct_answers
             THEN << [number |-> i,
                      question |-> qs[i].question,
                      correct_texts |->
                          [k \in 1..Cardinality(correct_answers) |->
                              qs[i].options[list(correct_answers)[k]]]] >> \o rest
             ELSE rest

\* lines 330-352: the final report
report(user_state) ==
    [type |-> "report",
     score |-> user_state.score,
     total |-> Len(user_state.questions),
     passed |-> passed(user_state.score, Len(user_state.questions)),
     incorrect |-> incorrect_questions(user_state.questions,
                                       user_state.user_answers, 1)]

(***************************************************************************)
(* Bounds of the model.                                                    *)
(***************************************************************************)
\* the draws of random.sample the model follows
NumSamples == 2
\* questions of one quiz the user marks options in
MaxMarked == 1
\* rows of the enumerated worksheets
MaxRows == 2
\* repetitions of one toggle
MaxRepeat == 3
\* updates dispatched in SpecConc
MaxUpdates == 3
\* failures of the store, the network or the process in SpecFault
MaxFaults == 1

Users == {"u1", "u2"}
\* the users who write to the bot where no more is said
Active == {"u1"}
Slots == {1, 2}
\* option numbers of select_<n> callbacks: two of the keyboard, one beyond it
ToggleOptions == {1, 2, 5}

Select(n) == [kind |-> "select", n |-> n]
Submit == [kind |-> "submit", n |-> 0]
Restart == [kind |-> "restart", n |-> 0]
NoUpdate == [user |-> "", data |-> [kind |-> "", n |-> 0]]

\* a draw with replacement: one question of the bank, n times
random_choices(qs, n) ==
    { [i \in 1..n |-> qs[k + 1]] : k \in 0..(NumSamples - 1) }

\* line 184: random.sample(self.questions, 10): 10 questions from 10 distinct
\* positions; the model follows the draws positions k+1, k+2, ... (wrapping)
random_sample(qs, n) ==
    { [i \in 1..n |-> qs[((i - 1 + k) % Len(qs)) + 1]] : k \in 0..(NumSamples - 1) }

\* questions of the stored quiz that were submitted with some option marked
marked(st, u) ==
    LET user_state == get_user_data(st, u)
    IN  Cardinality({i \in 1..Len(user_state.user_answers) :
                        user_state.user_answers[i] # <<>>})

(***************************************************************************)
(* The handlers of Test.py.  A coroutine runs without interruption from    *)
(* one await on a network call to the next; pc names the await a handler   *)
(* is suspended at:                                                        *)
(*   "answer"   line 278, await query.answer()                             *)
(*   "welcome"  line 202, await reply_text(welcome_text) of start          *)
(*   "finish"   lines 369/376, await reply_text(report) of finish_quiz     *)
(* and "loaded" is handle_answer between its read of the session (line     *)
(* 280) and the branch on query.data (line 285), where it is not           *)
(* suspended.  send_question reads the store and awaits only to send its   *)
(* message, and does nothing after that await.                             *)
(***************************************************************************)
\* the user marks options in at most MaxMarked questions of a quiz
may_mark(u) ==
    store[u] # None =>
        \/ get_user_data(store, u).selected_answers # <<>>
        \/ marked(store, u) < MaxMarked

\* Application.process_update (main, lines 402-409): an update goes to a free
\* handler; without concurrent_updates the next update waits for the handler of
\* the previous one to end.  Bounds: MaxUpdates updates when they are handled
\* concurrently, MaxMarked marked questions when they are not.
dispatch(h, u, kind) ==
    /\ pc[h] = "idle"
    /\ loaded = "ok"
    /\ IF concurrent_updates
       THEN /\ delivered < MaxUpdates
            /\ delivered' = delivered + 1
       ELSE /\ h = 1
            /\ kind = "select" => may_mark(u)
            /\ delivered' = delivered

\* the read of the session as one more await (an awaited store call)
awaits_with_read == {"answer", "welcome", "finish", "loaded"}

\* the awaits on network calls: line 278 (query.answer), line 202 (reply_text
\* of start), lines 369-376 (reply_text of finish_quiz)
awaits == {"answer", "welcome", "finish"}

\* asyncio runs one coroutine at a time: a handler runs only while every other
\* handler is suspended at an await (or has ended)
can_run(h) == \A g \in Slots \ {h} : pc[g] = "idle" \/ pc[g] \in awaits

\* the end of the quiz taken one question early
quiz_over_early(user_state) ==
    ~(user_state.current_question + 1 < Len(user_state.questions))

\* line 313: current_question < len(questions) sends the next question,
\* otherwise the quiz is finished
quiz_over(user_state) ==
    ~(user_state.current_question < Len(user_state.questions))

\* lines 183-202: start up to its first await, from a /start command
StartCommand(h, u) ==
    /\ can_run(h)
    /\ dispatch(h, u, "start")
    /\ \E random_questions \in random_sample(questions, QuizLen) :
           /\ store' = save_user_data(store, u, new_user_data(random_questions))
           /\ last_save' = [last_save EXCEPT ![u] = new_user_data(random_questions)]
    /\ db' = store'
    /\ out' = [out EXCEPT ![u] = Welcome]
    /\ pc' = [pc EXCEPT ![h] = "welcome"]
    /\ upd' = [upd EXCEPT ![h] = [user |-> u, data |-> [kind |-> "start", n |-> 0]]]
    /\ submits' = [submits EXCEPT ![u] = 0]
    /\ UNCHANGED <<local, faults, bot>>

\* lines 203-204: start after the welcome text was sent: send_question
WelcomeSent(h) ==
    /\ can_run(h)
    /\ pc[h] = "welcome"
    /\ out' = [out EXCEPT ![upd[h].user] = send_question(store, upd[h].user)]
    /\ pc' = [pc EXCEPT ![h] = "idle"]
    /\ upd' = [upd EXCEPT ![h] = NoUpdate]
    /\ UNCHANGED <<store, db, last_save, local, submits, delivered, faults, bot>>

\* lines 277-278: a callback query is dispatched to handle_answer, which
\* awaits query.answer()
Callback(h, u, data) ==
    /\ can_run(h)
    /\ dispatch(h, u, data.kind)
    /\ pc' = [pc EXCEPT ![h] = "answer"]
    /\ upd' = [upd EXCEPT ![h] = [user |-> u, data |-> data]]
    /\ UNCHANGED <<store, db, last_save, local, out, submits, faults, bot>>

\* a missing session answered by starting a quiz
AnswerExpired_starts(h) ==
    /\ can_run(h)
    /\ pc[h] = "answer"
    /\ get_user_data(store, upd[h].user) = None
    /\ \E random_questions \in random_sample(questions, QuizLen) :
           /\ store' = save_user_data(store, upd[h].user,
                                      new_user_data(random_questions))
           /\ last_save' = [last_save EXCEPT ![upd[h].user] =
                                new_user_data(random_questions)]
    /\ db' = store'
    /\ out' = [out EXCEPT ![upd[h].user] = Welcome]
    /\ pc' = [pc EXCEPT ![h] = "idle"]
    /\ upd' = [upd EXCEPT ![h] = NoUpdate]
    /\ UNCHANGED <<local, submits, delivered, faults, bot>>

\* lines 279-283: no stored session
AnswerExpired(h) ==
    /\ can_run(h)
    /\ pc[h] = "answer"
    /\ get_user_data(store, upd[h].user) = None
    /\ out' = [out EXCEPT ![upd[h].user] = Expired]
    /\ pc' = [pc EXCEPT ![h] = "idle"]
    /\ upd' = [upd EXCEPT ![h] = NoUpdate]
    /\ UNCHANGED <<store, db, last_save, local, submits, delivered, faults, bot>>

\* lines 279-285: user_state = self.get_user_data(user_id), a session is stored
AnswerLoad(h) ==
    /\ can_run(h)
    /\ pc[h] = "answer"
    /\ get_user_data(store, upd[h].user) # None
    /\ local' = [local EXCEPT ![h] = get_user_data(store, upd[h].user)]
    /\ pc' = [pc EXCEPT ![h] = "loaded"]
    /\ UNCHANGED <<store, db, last_save, upd, out, submits, delivered, faults, bot>>

\* lines 286-288 and 183-202: restart runs start up to its first await
AnswerRestart(h) ==
    /\ can_run(h)
    /\ pc[h] = "loaded"
    /\ upd[h].data.kind = "restart"
    /\ \E random_questions \in random_sample(questions, QuizLen) :
           /\ store' = save_user_data(store, upd[h].user,
                                      new_user_data(random_questions))
           /\ last_save' = [last_save EXCEPT ![upd[h].user] =
                                new_user_data(random_questions)]
    /\ db' = store'
    /\ out' = [out EXCEPT ![upd[h].user] = Welcome]
    /\ pc' = [pc EXCEPT ![h] = "welcome"]
    /\ local' = [local EXCEPT ![h] = None]
    /\ submits' = [submits EXCEPT ![upd[h].user] = 0]
    /\ UNCHANGED <<upd, delivered, faults, bot>>

\* lines 289-296: select_<n>: toggle, save, send_question
AnswerSelect(h) ==
    /\ can_run(h)
    /\ pc[h] = "loaded"
    /\ upd[h].data.kind = "select"
    /\ LET u == upd[h].user
           user_state == toggle(local[h], upd[h].data.n)
           saved == save_user_data(store, u, user_state)
       IN  /\ store' = saved
           /\ db' = saved
           /\ last_save' = [last_save EXCEPT ![u] = user_state]
           /\ out' = [out EXCEPT ![u] = send_question(saved, u)]
    /\ pc' = [pc EXCEPT ![h] = "idle"]
    /\ upd' = [upd EXCEPT ![h] = NoUpdate]
    /\ local' = [local EXCEPT ![h] = None]
    /\ UNCHANGED <<submits, delivered, faults, bot>>

\* lines 297-319: submit: grade, save, then send_question or finish_quiz
\* (lines 324-376, up to its await); an IndexError at line 298 is caught at
\* line 317
AnswerSubmit(h) ==
    /\ can_run(h)
    /\ pc[h] = "loaded"
    /\ upd[h].data.kind = "submit"
    /\ LET u == upd[h].user
           user_state == submit(local[h])
           saved == save_user_data(store, u, user_state)
       IN  IF index_error(local[h])
           THEN /\ out' = [out EXCEPT ![u] = Failed]
                /\ pc' = [pc EXCEPT ![h] = "idle"]
                /\ upd' = [upd EXCEPT ![h] = NoUpdate]
                /\ UNCHANGED <<store, db, last_save, submits>>
           ELSE /\ store' = saved
                /\ db' = saved
                /\ last_save' = [last_save EXCEPT ![u] = user_state]
                /\ submits' = [submits EXCEPT ![u] = @ + 1]
                /\ IF ~quiz_over(user_state)
                   THEN /\ out' = [out EXCEPT ![u] = send_question(saved, u)]
                        /\ pc' = [pc EXCEPT ![h] = "idle"]
                        /\ upd' = [upd EXCEPT ![h] = NoUpdate]
                   ELSE /\ out' = [out EXCEPT ![u] =
                                      report(get_user_data(saved, u))]
                        /\ pc' = [pc EXCEPT ![h] = "finish"]
                        /\ upd' = upd
    /\ local' = [local EXCEPT ![h] = None]
    /\ UNCHANGED <<delivered, faults, bot>>

\* lines 382-383: finish_quiz after the report was sent: delete the session
FinishQuiz(h) ==
    /\ can_run(h)
    /\ pc[h] = "finish"
    /\ store' = delete_user_data(store, upd[h].user)
    /\ db' = store'
    /\ last_save' = [last_save EXCEPT ![upd[h].user] = None]
    /\ pc' = [pc EXCEPT ![h] = "idle"]
    /\ upd' = [upd EXCEPT ![h] = NoUpdate]
    /\ UNCHANGED <<local, out, submits, delivered, faults, bot>>

\* the callback data the model delivers
CallbackData == {Select(n) : n \in ToggleOptions} \cup {Submit, Restart}

\* an update is dispatched to its handler
Arrive(h) ==
    \/ \E u \in Active : StartCommand(h, u)
    \/ \E u \in Active : \E data \in CallbackData : Callback(h, u, data)

\* a handler runs on to its next await or to its end
Resume(h) ==
    \/ WelcomeSent(h)
    \/ AnswerExpired(h)
    \/ AnswerLoad(h)
    \/ AnswerRestart(h)
    \/ AnswerSelect(h)
    \/ AnswerSubmit(h)
    \/ FinishQuiz(h)

(***************************************************************************)
(* The session engine.  Init is the bot after QuizBot(TestSheet) with an   *)
(* empty table.                                                            *)
(*                                                                         *)
(* Spec: the Application of main() handles one update at a time (the       *)
(* default of python-telegram-bot), so one handler slot is in use.  The    *)
(* user marks options in at most MaxMarked questions of a quiz.            *)
(***************************************************************************)
\* the table after save_user_data of user_data for each active user
stored(user_data) ==
    [u \in Users |->
        IF u \in Active
        THEN save_user_data([v \in Users |-> None], u, user_data)[u]
        ELSE None]

\* the submits of a session of n submits for each active user
submitted(n) == [u \in Users |-> IF u \in Active THEN n ELSE 0]

idle ==
    /\ store = [u \in Users |-> None]
    /\ db = store
    /\ last_save = [u \in Users |-> get_user_data(store, u)]
    /\ faults = 0
    /\ submits = [u \in Users |-> 0]
    /\ pc = [h \in Slots |-> "idle"]
    /\ upd = [h \in Slots |-> NoUpdate]
    /\ local = [h \in Slots |-> None]
    /\ out = [u \in Users |-> NoMessage]
    /\ delivered = 0

started ==
    /\ pc = [h \in Slots |-> "idle"]
    /\ upd = [h \in Slots |-> NoUpdate]
    /\ local = [h \in Slots |-> None]
    /\ out = [u \in Users |-> NoMessage]
    /\ delivered = 0
    /\ sheet = TestSheet
    /\ row_num = Len(TestSheet)
    /\ questions = parse_excel(TestSheet).questions
    /\ skipped_rows = parse_excel(TestSheet).skipped_rows
    /\ loaded = parse_excel(TestSheet).loaded

Init ==
    /\ started
    /\ concurrent_updates = FALSE
    /\ store = [u \in Users |-> None]
    /\ db = store
    /\ last_save = [u \in Users |-> get_user_data(store, u)]
    /\ faults = 0
    /\ submits = [u \in Users |-> 0]

Next == \E h \in Slots : Arrive(h) \/ Resume(h)

Spec == Init /\ [][Next]_vars

(***************************************************************************)
(* SpecConc: updates are handled concurrently (concurrent_updates), two    *)
(* handlers interleave at their awaits.  The bot is followed for           *)
(* MaxUpdates updates, from the empty table or from a quiz with 9 of its   *)
(* 10 questions submitted unanswered.                                      *)
(***************************************************************************)
RECURSIVE submit_times(_, _)
submit_times(user_state, n) ==
    IF n = 0 THEN user_state ELSE submit_times(submit(user_state), n - 1)

InitConc ==
    /\ started
    /\ concurrent_updates = TRUE
    /\ \/ /\ store = [u \in Users |-> None]
          /\ submits = [u \in Users |-> 0]
       \/ /\ \E random_questions \in random_sample(parse_excel(TestSheet).questions, QuizLen) :
                 store = stored(submit_times(new_user_data(random_questions),
                                             QuizLen - 1))
          /\ submits = submitted(QuizLen - 1)
    /\ db = store
    /\ last_save = [u \in Users |-> get_user_data(store, u)]
    /\ faults = 0

SpecConc == InitConc /\ [][Next]_vars

(***************************************************************************)
(* SpecFault: SpecConc with two users and with up to MaxFaults failures:   *)
(* a store call raises sqlite3.Error, an awaited Telegram call raises, or  *)
(* the process ends and main() runs again.                                 *)
(*                                                                         *)
(* save_user_data and delete_user_data raise from cursor.execute, with     *)
(* nothing written, or from conn.commit() (lines 165 and 175), e.g. with   *)
(* "database is locked".  The code has no rollback: after a failed commit  *)
(* the transaction stays open, self.conn shows the row as written, and     *)
(* the next commit that succeeds writes it to the file.  A new process     *)
(* opens the file (line 26) and sees what was committed.                   *)
(***************************************************************************)
\* the tables self.conn may show after save_user_data raised
failed_save(st, user_id, user_data) ==
    {st, save_user_data(st, user_id, user_data)}

\* the tables self.conn may show after delete_user_data raised
failed_delete(st, user_id) == {st, delete_user_data(st, user_id)}

\* the user_data handle_answer is about to save after its read
writes(h) ==
    IF upd[h].data.kind = "restart"
    THEN {new_user_data(random_questions) :
             random_questions \in random_sample(questions, QuizLen)}
    ELSE IF upd[h].data.kind = "select"
    THEN {toggle(local[h], upd[h].data.n)}
    ELSE IF index_error(local[h]) THEN {} ELSE {submit(local[h])}

\* the history of submits follows the row self.conn shows
submits_of(st, u) ==
    IF st[u] = None THEN submits[u]
    ELSE get_user_data(st, u).current_question

\* lines 192 and 205-207: save_user_data raises in start, from a /start
\* command; the error reply is sent and the handler ends
StartSaveFails(h, u) ==
    /\ can_run(h)
    /\ dispatch(h, u, "start")
    /\ faults > 0
    /\ faults' = faults - 1
    /\ \E random_questions \in random_sample(questions, QuizLen) :
           store' \in failed_save(store, u, new_user_data(random_questions))
    /\ out' = [out EXCEPT ![u] = Failed]
    /\ submits' = [submits EXCEPT ![u] = submits_of(store', u)]
    /\ UNCHANGED <<db, last_save, pc, upd, local, bot>>

\* lines 192, 295, 311 and 317-319: save_user_data raises in handle_answer
\* (in start for a restart); the error reply is sent and the handler ends
AnswerSaveFails(h) ==
    /\ can_run(h)
    /\ pc[h] = "loaded"
    /\ faults > 0
    /\ faults' = faults - 1
    /\ \E user_data \in writes(h) :
           store' \in failed_save(store, upd[h].user, user_data)
    /\ out' = [out EXCEPT ![upd[h].user] = Failed]
    /\ submits' = [submits EXCEPT ![upd[h].user] = submits_of(store', upd[h].user)]
    /\ pc' = [pc EXCEPT ![h] = "idle"]
    /\ upd' = [upd EXCEPT ![h] = NoUpdate]
    /\ local' = [local EXCEPT ![h] = None]
    /\ UNCHANGED <<db, last_save, delivered, bot>>

\* the awaited call of line 278, 202 or 369-376 raises (a network error):
\* the except clause of the handler sends the error reply, the rest of the
\* try block is skipped.  get_user_data raising at line 280, right after
\* the await of line 278, ends handle_answer in the same way.
ReplyFails(h) ==
    /\ can_run(h)
    /\ pc[h] \in awaits
    /\ faults > 0
    /\ faults' = faults - 1
    /\ out' = [out EXCEPT ![upd[h].user] = Failed]
    /\ pc' = [pc EXCEPT ![h] = "idle"]
    /\ upd' = [upd EXCEPT ![h] = NoUpdate]
    /\ UNCHANGED <<store, db, last_save, local, submits, delivered, bot>>

\* lines 382 and 384-386: delete_user_data raises in finish_quiz
DeleteFails(h) ==
    /\ can_run(h)
    /\ pc[h] = "finish"
    /\ faults > 0
    /\ faults' = faults - 1
    /\ store' \in failed_delete(store, upd[h].user)
    /\ out' = [out EXCEPT ![upd[h].user] = Failed]
    /\ pc' = [pc EXCEPT ![h] = "idle"]
    /\ upd' = [upd EXCEPT ![h] = NoUpdate]
    /\ UNCHANGED <<db, last_save, local, submits, delivered, bot>>

\* the process ends and main() runs again (lines 22-27 and 402-409): the
\* handlers in flight are gone, the new connection shows the file
Crash ==
    /\ loaded = "ok"
    /\ faults > 0
    /\ faults' = faults - 1
    /\ store' = db
    /\ pc' = [h \in Slots |-> "idle"]
    /\ upd' = [h \in Slots |-> NoUpdate]
    /\ local' = [h \in Slots |-> None]
    /\ UNCHANGED <<db, last_save, out, submits, delivered, bot>>

InitFault ==
    /\ started
    /\ concurrent_updates = TRUE
    /\ \/ /\ store = [u \in Users |-> None]
          /\ submits = [u \in Users |-> 0]
       \/ /\ \E random_questions \in random_sample(parse_excel(TestSheet).questions, QuizLen) :
                 store = stored(submit_times(new_user_data(random_questions),
                                             QuizLen - 1))
          /\ submits = submitted(QuizLen - 1)
    /\ db = store
    /\ last_save = [u \in Users |-> get_user_data(store, u)]
    /\ faults = MaxFaults

NextFault ==
    \/ \E h \in Slots :
           \/ \E u \in Users : StartCommand(h, u)
           \/ \E u \in Users : \E data \in CallbackData : Callback(h, u, data)
           \/ Resume(h)
           \/ \E u \in Users : StartSaveFails(h, u)
           \/ AnswerSaveFails(h)
           \/ ReplyFails(h)
           \/ DeleteFails(h)
    \/ Crash

SpecFault == InitFault /\ [][NextFault]_vars

(***************************************************************************)
(* SpecReport: the last submit of a quiz and its report.  The user has     *)
(* answered 9 questions and marked the 10th, each of them with nothing,    *)
(* with the correct options or (where there are two) with the first of     *)
(* them; the last submit follows, handled alone.                           *)
(***************************************************************************)
\* the option buttons of one answer pressed in turn
RECURSIVE toggle_all(_, _)
toggle_all(user_state, options) ==
    IF options = <<>> THEN user_state
    ELSE toggle_all(toggle(user_state, Head(options)), Tail(options))

\* questions 1..n answered with the selections of the user
RECURSIVE answer_all(_, _, _)
answer_all(user_state, selections, n) ==
    IF n = 0 THEN user_state
    ELSE submit(toggle_all(answer_all(user_state, selections, n - 1),
                           selections[n]))

\* what the user marks on a question: nothing, the correct options, or the
\* first of two correct options
Marks == {"none", "correct", "first"}

selection(question_data, mark) ==
    IF mark = "none" THEN <<>>
    ELSE IF mark = "correct" THEN question_data.correct_answers
    ELSE <<question_data.correct_answers[1]>>

InitReport ==
    /\ started
    /\ concurrent_updates = FALSE
    /\ \E random_questions \in random_sample(parse_excel(TestSheet).questions, QuizLen) :
       \E marks \in [1..QuizLen -> Marks] :
           /\ \A i \in 1..QuizLen :
                  marks[i] = "first" => Len(random_questions[i].correct_answers) > 1
           /\ LET selections == [i \in 1..QuizLen |->
                                    selection(random_questions[i], marks[i])]
              IN  store = stored(toggle_all(
                                answer_all(new_user_data(random_questions),
                                           selections, QuizLen - 1),
                                selections[QuizLen]))
    /\ db = store
    /\ last_save = [u \in Users |-> get_user_data(store, u)]
    /\ faults = 0
    /\ submits = submitted(QuizLen - 1)

NextReport ==
    \E h \in Slots :
        \/ \E u \in Active : Callback(h, u, Submit)
        \/ AnswerLoad(h)
        \/ AnswerSubmit(h)
        \/ FinishQuiz(h)

SpecReport == InitReport /\ [][NextReport]_vars

(***************************************************************************)
(* SpecToggle: the user of a quiz that has just started presses option     *)
(* buttons only, any of the four of the keyboard and the number 5 beyond   *)
(* it, one update at a time.                                               *)
(***************************************************************************)
InitToggle ==
    /\ started
    /\ concurrent_updates = FALSE
    /\ \E random_questions \in random_sample(parse_excel(TestSheet).questions, QuizLen) :
           store = stored(new_user_data(random_questions))
    /\ db = store
    /\ last_save = [u \in Users |-> get_user_data(store, u)]
    /\ faults = 0
    /\ submits = [u \in Users |-> 0]

NextToggle ==
    \E h \in Slots :
        \/ \E u \in Active : \E n \in (1..4) \cup ToggleOptions :
               Callback(h, u, Select(n))
        \/ AnswerLoad(h)
        \/ AnswerSelect(h)

SpecToggle == InitToggle /\ [][NextToggle]_vars

(***************************************************************************)
(* SpecLoad: parse_excel on its own, row by row, on every worksheet of at  *)
(* most MaxRows rows drawn from RowKinds and on worksheets with a number   *)
(* of accepted rows at the two size limits.                                *)
(***************************************************************************)
AnswerCells ==
    { Str(<<"1">>), Str(<<"4">>), Num(2), Str(<<" ", "3", " ">>),
      Str(<<"1", " ", "i", " ", "3">>),
      Str(<<"2", " ", " ", "i", " ", " ", "4">>),
      Str(<<"1", " ", "i", " ", "5">>),
      Str(<<"5", " ", "i", " ", "1">>),
      Str(<<"1", " ", "i", " ", "1">>),
      Str(<<"1", " ", "i", " ", "2", " ", "i", " ", "3">>),
      Str(<<"1", "i", "3">>), Str(<<"1", ",", "3">>),
      Str(<<"5">>), Str(<<"x">>), Str(<<" ">>), Str(<<>>), Num(0), None }

Text == Str(<<"t">>)

RowKinds ==
    { <<a, Text, Text, Text, Text, Text>> : a \in AnswerCells }
    \cup { <<Str(<<"1">>), q, Text, Text, Text, Text>> :
              q \in {None, Str(<<>>), Str(<<" ">>), Str(<<" ", "t", " ">>)} }
    \cup { <<Str(<<"2">>), Text, Text, o, Text, Text>> :
              o \in {None, Str(<<>>), Str(<<" ">>), Num(7)} }

RECURSIVE sheets_of(_)
sheets_of(n) ==
    IF n = 0 THEN {<<>>}
    ELSE LET shorter == sheets_of(n - 1)
         IN  shorter \cup { Append(rows, r) : rows \in shorter, r \in RowKinds }

GoodRow == <<Str(<<"1">>), Text, Text, Text, Text, Text>>
BadRow == <<Str(<<"x">>), Text, Text, Text, Text, Text>>

LimitSheets ==
    LET good(n) == [i \in 1..n |-> GoodRow]
    IN  { good(n) : n \in {MinQuestions, MinQuestions + 1,
                           MaxQuestions, MaxQuestions + 1} }
        \cup { <<BadRow>> \o good(n) \o <<BadRow>> :
                  n \in {MinQuestions, MinQuestions + 1,
                         MaxQuestions, MaxQuestions + 1} }

\* lines 67-110: the next row of the sheet
ParseRow ==
    /\ loaded = "parsing"
    /\ row_num < Len(sheet)
    /\ LET r == parse_row(row_num + 1, sheet[row_num + 1], questions, skipped_rows)
       IN  /\ questions' = r.questions
           /\ skipped_rows' = r.skipped_rows
    /\ row_num' = row_num + 1
    /\ UNCHANGED <<store, db, last_save, pc, upd, local, out, submits, delivered, faults,
                   concurrent_updates,
                   sheet, loaded>>

\* lines 112-123: after the last row: raise ValueError or return questions
FinishLoad ==
    /\ loaded = "parsing"
    /\ row_num = Len(sheet)
    /\ loaded' = IF too_few(questions) \/ too_many(questions) THEN "error" ELSE "ok"
    /\ UNCHANGED <<store, db, last_save, pc, upd, local, out, submits, delivered, faults,
                   concurrent_updates,
                   sheet, row_num, questions, skipped_rows>>

InitLoad ==
    /\ idle
    /\ concurrent_updates = FALSE
    /\ sheet \in sheets_of(MaxRows) \cup LimitSheets
    /\ row_num = 0
    /\ questions = <<>>
    /\ skipped_rows = <<>>
    /\ loaded = "parsing"

NextLoad == ParseRow \/ FinishLoad

SpecLoad == InitLoad /\ [][NextLoad]_vars

(***************************************************************************)
(* Properties.  Helpers of the statements: the elements of a list, the     *)
(* stored session of a user before and after a step, the steps of the      *)
(* handlers as seen from outside.                                          *)
(***************************************************************************)
Range(xs) == {xs[i] : i \in DOMAIN xs}

has_session(u) == store[u] # None
session(u) == get_user_data(store, u)
in_progress(u) ==
    has_session(u) /\ session(u).current_question < Len(session(u).questions)

\* the entry Teletest_Sv.py keeps for a session
sv_entry(user_state) ==
    [questions |-> user_state.questions,
     current_question |-> user_state.current_question,
     score |-> user_state.score,
     selected_answers |-> user_state.selected_answers]

\* handler h leaves handle_answer's branch for callback data of kind k
\* (a step from "loaded"), on an in-progress session
branch_step(h, k) ==
    /\ pc[h] = "loaded"
    /\ pc'[h] # "loaded"
    /\ upd[h].data.kind = k
    /\ in_progress(upd[h].user)

\* C1: a submit on an in-progress session at question i raises score by
\* exactly 1 if set(selected_answers) = set(questions[i].correct_answers) and
\* leaves it unchanged otherwise; Teletest_Sv.py grades the same way.
C1_ExactSetGrading ==
    [][\A h \in Slots :
          branch_step(h, "submit") =>
              LET u == upd[h].user
                  before == session(u)
                  after == get_user_data(store', u)
                  correct == Range(before.questions[before.current_question + 1]
                                       .correct_answers)
                  gain == IF Range(before.selected_answers) = correct
                          THEN 1 ELSE 0
              IN  /\ after # None
                  /\ after.score = before.score + gain
                  /\ Sv_submit(sv_entry(before)).score = before.score + gain]_vars

\* C1 witness: an exact two-element match was graded, score 1
C1_Witness ==
    \E u \in Users :
        /\ has_session(u)
        /\ session(u).score = 1
        /\ session(u).current_question >= 1
        /\ Len(session(u).user_answers[session(u).current_question]) = 2

\* a new quiz: 10 questions, nothing answered, nothing selected
fresh(user_state) ==
    /\ Len(user_state.questions) = QuizLen
    /\ user_state.current_question = 0
    /\ user_state.score = 0
    /\ user_state.selected_answers = <<>>
    /\ user_state.user_answers = <<>>

\* C2 (as claimed): whenever the handling of a restart callback gets past
\* its branch on the callback data or ends, the user has a stored new quiz:
\* 10 questions, current_question 0, score 0, nothing selected or answered.
C2_RestartAsStart ==
    [][\A h \in Slots :
          /\ pc[h] \in {"answer", "loaded"}
          /\ upd[h].data.kind = "restart"
          /\ pc'[h] \notin {"answer", "loaded"}
          => /\ store'[upd[h].user] # None
             /\ fresh(get_user_data(store', upd[h].user))]_vars

\* C3: a submit on an in-progress session empties selected_answers, raises
\* current_question by exactly 1 and appends the submitted set to
\* user_answers, whether or not the answer was correct.
C3_SubmitAdvances ==
    [][\A h \in Slots :
          branch_step(h, "submit") =>
              LET u == upd[h].user
                  before == session(u)
                  after == get_user_data(store', u)
              IN  /\ after # None
                  /\ after.selected_answers = <<>>
                  /\ after.current_question = before.current_question + 1
                  /\ Len(after.user_answers) = Len(before.user_answers) + 1
                  /\ SubSeq(after.user_answers, 1, Len(before.user_answers))
                         = before.user_answers
                  /\ Range(after.user_answers[Len(after.user_answers)])
                         = Range(before.selected_answers)
                  /\ after.questions = before.questions]_vars

\* C3 witness: a wrong non-empty answer was submitted and recorded
C3_Witness ==
    \E u \in Users :
        /\ has_session(u)
        /\ session(u).current_question = 3
        /\ session(u).score = 0
        /\ session(u).user_answers[3] # <<>>
        /\ session(u).selected_answers = <<>>

\* handler of a quiz of u that is finished: the report is being sent
finishing(u) == \E h \in Slots : pc[h] = "finish" /\ upd[h].user = u

\* C4: after a start the stored session is in progress for the first 9
\* submits, current_question counting them; the 10th submit completes it
\* with current_question = 10 and 10 recorded answers and produces the
\* report; a report is produced after exactly 10 submits.
C4_TenSubmits ==
    \A u \in Users :
        /\ submits[u] <= QuizLen
        /\ has_session(u) =>
               /\ session(u).current_question = submits[u]
               /\ Len(session(u).user_answers) = submits[u]
        /\ has_session(u) /\ submits[u] < QuizLen =>
               in_progress(u) /\ ~finishing(u) /\ out[u].type # "report"
        /\ finishing(u) <=> has_session(u) /\ submits[u] = QuizLen
        /\ finishing(u) =>
               /\ session(u).current_question = QuizLen
               /\ Len(session(u).user_answers) = QuizLen
               /\ out[u].type = "report"
        /\ out[u].type = "report" => submits[u] = QuizLen

\* C4 witness: the 10th submit was handled and the report is out
C4_Witness ==
    \E u \in Users :
        finishing(u) /\ submits[u] = QuizLen /\ out[u].type = "report"

RECURSIVE toggle_times(_, _, _)
toggle_times(user_state, n, k) ==
    IF k = 0 THEN user_state ELSE toggle_times(toggle(user_state, n), n, k - 1)

RECURSIVE Sv_toggle_times(_, _, _)
Sv_toggle_times(entry, n, k) ==
    IF k = 0 THEN entry ELSE Sv_toggle_times(Sv_toggle(entry, n), n, k - 1)

\* C5: for every stored in-progress session and option n, toggling n an
\* even number of times leaves the set of selected_answers as it was and an
\* odd number of times flips exactly the membership of n; nothing else of
\* the session changes; Teletest_Sv.py toggles the same way.
C5_ToggleInverse ==
    \A u \in Users :
        in_progress(u) =>
            \A n \in (1..4) \cup ToggleOptions : \A k \in 0..MaxRepeat :
                LET before == session(u)
                    after == toggle_times(before, n, k)
                    was == Range(before.selected_answers)
                    flipped == IF n \in was THEN was \ {n} ELSE was \cup {n}
                IN  /\ Range(after.selected_answers)
                           = IF k % 2 = 0 THEN was ELSE flipped
                    /\ Len(after.selected_answers)
                           = Cardinality(Range(after.selected_answers))
                    /\ [after EXCEPT !.selected_answers = <<>>]
                           = [before EXCEPT !.selected_answers = <<>>]
                    /\ Sv_toggle_times(sv_entry(before), n, k).selected_answers
                           = after.selected_answers

\* C5 witness: option 1 was toggled on, off and on again around options 2
\* and 3: the list is in another order than [1, 2, 3], the set is the same
C5_Witness ==
    \E u \in Users :
        in_progress(u) /\ session(u).selected_answers = <<2, 3, 1>>
\* n toggled in the set S
flip(S, n) == IF n \in S THEN S \ {n} ELSE S \cup {n}

\* C6: two handlings of toggle or submit callbacks of one user never work
\* on the same stored snapshot: while a handler holds the session it read,
\* that session is what is stored and no other handler holds one, and what
\* the handler then writes is its transition applied to what is stored at
\* that moment, so the writes are those of the two transitions one after
\* the other and none is lost.
C6_Serialized ==
    /\ [](\A h \in Slots :
             pc[h] = "loaded" =>
                 /\ local[h] = session(upd[h].user)
                 /\ \A g \in Slots \ {h} : pc[g] # "loaded")
    /\ [][\A h \in Slots :
             LET u == upd[h].user
                 before == session(u)
                 after == get_user_data(store', u)
             IN  /\ branch_step(h, "select") =>
                        /\ after # None
                        /\ Range(after.selected_answers)
                               = flip(Range(before.selected_answers), upd[h].data.n)
                        /\ after.current_question = before.current_question
                        /\ after.user_answers = before.user_answers
                 /\ branch_step(h, "submit") =>
                        /\ after # None
                        /\ after.current_question = before.current_question + 1
                        /\ Len(after.user_answers) = Len(before.user_answers) + 1
                        /\ Range(after.user_answers[Len(after.user_answers)])
                               = Range(before.selected_answers)]_vars

\* C6 witness: two toggles of one user are in flight at once: one handler
\* has read the session, the other is suspended before its read
C6_Witness ==
    \E h \in Slots : \E g \in Slots \ {h} :
        /\ pc[h] = "loaded" /\ pc[g] = "answer"
        /\ upd[h].user = upd[g].user
        /\ upd[h].data.kind = "select" /\ upd[g].data.kind = "select"

\* C7 (as claimed): a toggle with an option number outside 1..4 leaves the
\* stored session as it was, and selected_answers of every stored session
\* is a subset of {1, 2, 3, 4}.
C7_OptionInRange ==
    /\ [](\A u \in Users :
             has_session(u) => Range(session(u).selected_answers) \subseteq 1..4)
    /\ [][\A h \in Slots :
             /\ pc[h] = "loaded" /\ pc'[h] # "loaded"
             /\ upd[h].data.kind = "select"
             /\ upd[h].data.n \notin 1..4
             => store' = store]_vars
\* the for loop of parse_excel handles the next row
row_step == loaded = "parsing" /\ row_num' = row_num + 1

\* the answer cell reads, after the trimming of line 80, as one digit of
\* 1..4 or as two such digits joined by the separator
strict_answer(cell) ==
    \/ normalize_answer(cell) \in ValidDigits
    \/ \E a \in ValidDigits : \E b \in ValidDigits :
           normalize_answer(cell) = a \o Sep \o b

\* C8 (as claimed): a row is accepted only if its answer field is a single
\* digit of 1..4 or exactly two such digits joined by the separator; a row
\* with any other answer field adds no question to the bank.
C8_StrictAnswers ==
    [][row_step /\ ~strict_answer(sheet[row_num + 1][1])
          => questions' = questions]_vars

well_formed(q) ==
    /\ q.correct_answers # <<>>
    /\ Range(q.correct_answers) \subseteq 1..4
    /\ Cardinality(Range(q.correct_answers)) = Len(q.correct_answers)
    /\ q.question # <<>>
    /\ Len(q.options) = 4
    /\ \A i \in 1..Len(q.options) :
           \E j \in 1..Len(q.options[i]) : q.options[i][j] # " "

\* C9 (as claimed): every question of the bank is well-formed (non-empty
\* correct_answers without duplicates and within 1..4, non-empty trimmed
\* text, 4 non-blank options), and each row is either accepted or recorded
\* in skipped_rows with a reason, never both.
C9_WellFormedBank ==
    /\ [](\A i \in 1..Len(questions) : well_formed(questions[i]))
    /\ [][row_step =>
             \/ /\ questions' # questions
                /\ skipped_rows' = skipped_rows
             \/ /\ questions' = questions
                /\ Len(skipped_rows') > Len(skipped_rows)
                /\ \A i \in (Len(skipped_rows) + 1)..Len(skipped_rows') :
                       skipped_rows'[i][1] = row_num + 1]_vars

\* C10: the load raises when the number of accepted rows is below 11 or
\* above 500 and returns the bank otherwise; the bank is every accepted row
\* in input order (a row appends at most one question, the decision is
\* taken after the last row and drops nothing); a rejected row does not end
\* the load.
C10_LoadLimits ==
    /\ [](/\ loaded = "ok" => Len(questions) >= 11 /\ Len(questions) <= 500
          /\ loaded = "error" => Len(questions) < 11 \/ Len(questions) > 500
          /\ loaded # "parsing" => row_num = Len(sheet))
    /\ [][/\ row_step =>
                /\ \/ questions' = questions
                   \/ /\ Len(questions') = Len(questions) + 1
                      /\ SubSeq(questions', 1, Len(questions)) = questions
                /\ loaded' = "parsing"
          /\ loaded = "parsing" /\ loaded' # "parsing" =>
                questions' = questions /\ row_num' = row_num]_vars

\* C10 witness: 500 rows were accepted, 2 rows rejected, the bank returned
C10_Witness ==
    loaded = "ok" /\ Len(questions) = 500 /\ Len(skipped_rows) = 2

\* the report the bot sent to user u
is_report(u) == out[u].type = "report"

\* C11: the verdict of the final report is passed exactly when
\* score/total >= 0.80, total being the number of questions of the session,
\* in integers 5*score >= 4*total: of 10 questions, 8, 9 and 10 correct pass
\* and 0..7 do not; Teletest_Sv.py gives the same verdict.
C11_PassedVerdict ==
    \A u \in Users :
        is_report(u) =>
            /\ out[u].total = QuizLen
            /\ out[u].score \in 0..out[u].total
            /\ out[u].passed <=> 5 * out[u].score >= 4 * out[u].total
            /\ out[u].passed <=> out[u].score \in {8, 9, 10}
            /\ Sv_passed(out[u].score, out[u].total) <=> out[u].passed
            /\ finishing(u) =>
                   /\ out[u].score = session(u).score
                   /\ out[u].total = Len(session(u).questions)

\* C11 witness: a report on 8 correct answers of 10, passed
C11_Witness ==
    \E u \in Users :
        /\ finishing(u)
        /\ is_report(u)
        /\ out[u].score = 8
        /\ out[u].passed

\* the questions of a completed session answered with another set than the
\* correct one
missed(user_state) ==
    {i \in 1..Len(user_state.questions) :
        Range(user_state.user_answers[i])
            # Range(user_state.questions[i].correct_answers)}

\* C12: the missed list of the final report holds, in question order,
\* exactly the questions whose recorded answer set differs from the set of
\* correct answers, each with its text and the texts of its correct
\* options; an exactly answered question is not listed and a wrongly
\* answered one is not left out.
C12_MissedList ==
    \A u \in Users :
        finishing(u) /\ is_report(u) =>
            LET user_state == session(u)
                incorrect == out[u].incorrect
            IN  /\ Len(user_state.user_answers) = Len(user_state.questions)
                /\ {incorrect[j].number : j \in 1..Len(incorrect)}
                       = missed(user_state)
                /\ \A j \in 1..Len(incorrect) : \A k \in 1..Len(incorrect) :
                       j < k => incorrect[j].number < incorrect[k].number
                /\ \A j \in 1..Len(incorrect) :
                       LET question_data ==
                               user_state.questions[incorrect[j].number]
                       IN  /\ incorrect[j].question = question_data.question
                           /\ Range(incorrect[j].correct_texts)
                                  = {question_data.options[a] :
                                        a \in Range(question_data.correct_answers)}
                           /\ Len(incorrect[j].correct_texts)
                                  = Cardinality(Range(question_data.correct_answers))

\* C12 witness: a report that lists some questions and leaves out a
\* question answered in another order than its correct answers are stored in
C12_Witness ==
    \E u \in Users :
        /\ finishing(u)
        /\ is_report(u)
        /\ out[u].incorrect # <<>>
        /\ \E i \in 1..QuizLen :
               /\ i \notin missed(session(u))
               /\ session(u).user_answers[i]
                      # session(u).questions[i].correct_answers

\* handler h of a toggle or submit reads the store (a step from "answer")
\* and finds no session of its user
no_session_step(h) ==
    /\ pc[h] = "answer"
    /\ pc'[h] # "answer"
    /\ upd[h].data.kind \in {"select", "submit"}
    /\ ~has_session(upd[h].user)

\* C13: a toggle or submit of a user without a stored session (never
\* started, or deleted after completion) is answered with the prompt to
\* start over; no session is created, the store stays as it is and the
\* handler ends without an error.
C13_NoSessionPrompt ==
    [][\A h \in Slots :
          no_session_step(h) =>
              /\ out'[upd[h].user].type = "expired"
              /\ store' = store
              /\ pc'[h] = "idle"]_vars

\* C13 witness: after a completed quiz was deleted the user is told to
\* start over, and no session is stored
C13_Witness ==
    \E u \in Users :
        /\ out[u].type = "expired"
        /\ ~has_session(u)
        /\ submits[u] = QuizLen
        /\ \A h \in Slots : pc[h] = "idle"

\* a step in which save_user_data raises for user u: in handle_answer
\* after its read, or in start from a /start command
save_failed_step(u) ==
    /\ faults' = faults - 1
    /\ \/ \E h \in Slots :
             pc[h] = "loaded" /\ pc'[h] = "idle" /\ upd[h].user = u
       \/ /\ delivered' = delivered + 1
          /\ out'[u] = Failed
          /\ \A v \in Users \ {u} : out'[v] = out[v]

\* C14: when save_user_data raises during a start, toggle or submit, the
\* user is sent the error message and the session the bot reads for that
\* user afterwards is the one it read before: nothing of the failed action
\* is kept, so the action can be repeated as if it had not been tried.
C14_FailedWriteKeepsSession ==
    [][\A u \in Users :
          save_failed_step(u) =>
              /\ out'[u].type = "error"
              /\ get_user_data(store', u) = get_user_data(store, u)]_vars

\* the stored session of u has all its questions submitted
completed(u) ==
    has_session(u) /\ session(u).current_question >= Len(session(u).questions)

\* no handler is at work on an update of user u
at_rest(u) == \A h \in Slots : upd[h].user # u

\* C15: completion ends the stored session: after the 10th submit the
\* report is produced and the session is deleted, also when sending the
\* report or a later store call fails; once the handler of the last submit
\* has ended, no completed session of the user is left in the store.
C15_CompletionEndsSession ==
    \A u \in Users : at_rest(u) => ~completed(u)

\* C16: a new process (QuizBot created again on quiz.db) reads for every
\* user exactly the user_data of the last save_user_data that returned for
\* that user, and nothing for a user whose session was deleted or never
\* saved: the file holds, at any moment the process may end, what the last
\* successful save or delete of each user left.
C16_SurvivesRestart ==
    \A u \in Users : get_user_data(db, u) = last_save[u]

\* C17: every stored session has 0 <= score <= current_question <= 10,
\* whatever start, toggle, submit and restart updates arrive, repeated or
\* out of order.
C17_ScoreWithinProgress ==
    \A u \in Users :
        has_session(u) =>
            /\ 0 <= session(u).score
            /\ session(u).score <= session(u).current_question
            /\ session(u).current_question <= QuizLen

\* C17 witness: the last question was answered correctly and submitted
\* twice; the second submit, arriving while the report is being sent, was
\* refused and the completed session is stored with score 1
C17_Witness ==
    \E u \in Users :
        /\ finishing(u)
        /\ has_session(u)
        /\ session(u).current_question = QuizLen
        /\ session(u).score = 1
        /\ out[u].type = "error"

\* C18: every stored session has one recorded answer set per submitted
\* question: len(user_answers) = current_question.
C18_OneAnswerPerQuestion ==
    \A u \in Users :
        has_session(u) =>
            Len(session(u).user_answers) = session(u).current_question

\* C18 witness: three questions submitted, the second of them with an
\* option marked
C18_Witness ==
    \E u \in Users :
        /\ has_session(u)
        /\ session(u).current_question = 3
        /\ Len(session(u).user_answers) = 3
        /\ session(u).user_answers[2] # <<>>

\* a step in which start (from /start or from restart) stores a new quiz for
\* user u: its handler goes on to the await of the welcome text
start_step(u) ==
    \E h \in Slots :
        pc[h] # "welcome" /\ pc'[h] = "welcome" /\ upd'[h].user = u

\* C19: the question list of a session is a frozen draw: start stores
\* exactly 10 questions from 10 distinct positions of the loaded bank, and
\* no toggle or submit changes the list; it stays as drawn until the
\* session is deleted or replaced by a new start.
C19_FrozenDraw ==
    /\ [](\A u \in Users :
             has_session(u) =>
                 LET qs == session(u).questions
                 IN  /\ Len(qs) = QuizLen
                     /\ \A i \in 1..Len(qs) :
                            \E p \in 1..Len(questions) : questions[p] = qs[i]
                     /\ \A i \in 1..Len(qs) : \A j \in 1..Len(qs) :
                            \A p \in 1..Len(questions) : \A q \in 1..Len(questions) :
                                i # j /\ questions[p] = qs[i] /\ questions[q] = qs[j]
                                    => p # q)
    /\ [][\A u \in Users :
             has_session(u) /\ get_user_data(store', u) # None /\ ~start_step(u)
                 => get_user_data(store', u).questions = session(u).questions]_vars

\* C19 witness: a quiz drawn from positions 2..11 of the bank, three
\* questions submitted and an option marked on the fourth
C19_Witness ==
    \E u \in Users :
        /\ has_session(u)
        /\ session(u).questions = [i \in 1..QuizLen |-> questions[i + 1]]
        /\ session(u).current_question = 3
        /\ session(u).selected_answers # <<>>

\* handler h of a toggle or submit, the only handler at work, leaves the
\* branch on query.data with a session read at current_question = 10
completed_step(h) ==
    /\ \A g \in Slots \ {h} : pc[g] = "idle"
    /\ pc[h] = "loaded"
    /\ pc'[h] # "loaded"
    /\ upd[h].data.kind \in {"select", "submit"}
    /\ completed(upd[h].user)
    /\ local[h] = session(upd[h].user)

\* C20: a toggle or submit that arrives while the stored session is at
\* current_question = 10 (completed, not deleted because sending the
\* report or the delete failed) leaves the stored session as it is,
\* selected_answers included.
C20_CompletedIsFinal ==
    [][\A h \in Slots :
          completed_step(h) =>
              get_user_data(store', upd[h].user) = session(upd[h].user)]_vars

\* the submitted questions of a session whose recorded answer set is the
\* correct one
matched(user_state) ==
    {i \in 1..user_state.current_question :
        /\ i <= Len(user_state.user_answers)
        /\ i <= Len(user_state.questions)
        /\ Range(user_state.user_answers[i])
               = Range(user_state.questions[i].correct_answers)}

\* C21: score and answer history agree: in every stored session score is
\* the number of submitted questions whose recorded answer set equals the
\* set of correct answers; so in the final report the score and the number
\* of missed questions add up to the total of 10.
C21_ScoreMatchesHistory ==
    \A u \in Users :
        /\ has_session(u) => session(u).score = Cardinality(matched(session(u)))
        /\ is_report(u) =>
               /\ out[u].total = QuizLen
               /\ out[u].score + Len(out[u].incorrect) = out[u].total

\* C21 witness: a report on 9 correct answers with 1 missed question, which
\* was answered with one of its two correct options
C21_Witness ==
    \E u \in Users :
        /\ finishing(u)
        /\ is_report(u)
        /\ out[u].score = 9
        /\ Len(out[u].incorrect) = 1
        /\ session(u).user_answers[out[u].incorrect[1].number] # <<>>

\* finish_quiz of handler h ends the await of its report while the store
\* holds, for its user, a session that is still in progress
late_delete_step(h) ==
    /\ pc[h] = "finish"
    /\ pc'[h] = "idle"
    /\ in_progress(upd[h].user)

====
